---- MODULE Spec2Model ----
(***************************************************************************)
(* TaskTrackr: the task table, the HTTP handlers of app/main.py and the    *)
(* CLI functions of app/admin.py.                                          *)
(*                                                                         *)
(* Three specifications over the same storage operators:                   *)
(*   Spec       requests served one at a time, storage available;          *)
(*   SpecFault  requests served one at a time, a storage call may raise;   *)
(*   SpecConc   two HTTP requests on one task id, interleaved at the       *)
(*              storage statements each handler issues.                    *)
(***************************************************************************)
EXTENDS Integers, Sequences, FiniteSets, TLC

\* Bound: number of rows ever inserted in one run (ids stay within 1..MaxCreates).
MaxCreates == 3

Titles == {"a", "b"}
BodyIds == {0, 1}
PathIds == 1..MaxCreates

VARIABLES
    tasks,      \* the tasks table: a set of rows [uid, id, title, completed]
    nInserted,  \* rows ever inserted; the next row's uid (history, names a record)
    resp,       \* the response of the last request
    prev,       \* for a get: the successful create or update of the same id that
                \* it directly follows, if any
    trace,      \* session events of the last request, in program order
    returned,   \* ids that a create or list response (HTTP or CLI) has shown
    live,       \* ids that a create has inserted and no delete has removed since
    gone,       \* ids that a delete has removed and no create has inserted since
    nCreated,   \* creates that inserted a task (HTTP create, CLI add)
    nDeleted,   \* deletes that removed a task
    store0,     \* SpecConc: the table when the two requests arrive
    creq,       \* SpecConc: the request of each worker
    pc,         \* SpecConc: the position of each worker in its handler
    loaded,     \* SpecConc: the row each worker's session has loaded
    cresp       \* SpecConc: the response of each worker

seqVars == <<tasks, nInserted, resp, prev, trace, returned, live, gone, nCreated, nDeleted>>
concVars == <<store0, creq, pc, loaded, cresp>>
vars == <<tasks, nInserted, resp, prev, trace, returned, live, gone, nCreated, nDeleted,
          store0, creq, pc, loaded, cresp>>

(***************************************************************************)
(* Schema and entity                                                       *)
(***************************************************************************)

\* TaskSchema: id int (required), title str, completed bool.
TaskSchema == [id : BodyIds, title : Titles, completed : BOOLEAN]

\* The absent task (None), in the shape of a serialized task.
NoTask == [id |-> 0, title |-> "", completed |-> FALSE]

\* Task entity constructed from keyword arguments; the primary key of the
\* new object is unset whatever id the arguments carry.
Task(kwargs) ==
    [hasId |-> FALSE, id |-> 0, title |-> kwargs.title, completed |-> kwargs.completed]

\* TaskSchema built from a row (from_attributes): the three fields, verbatim.
ToSchema(row) == [id |-> row.id, title |-> row.title, completed |-> row.completed]

(***************************************************************************)
(* Storage: the tasks table behind a session                               *)
(***************************************************************************)

Ids(store) == {r.id : r \in store}

MaxOf(S) == CHOOSE m \in S : \A x \in S : x <= m

\* The id the storage gives a row inserted without one.
NextRowId(store) == IF store = {} THEN 1 ELSE MaxOf(Ids(store)) + 1

\* INSERT of a pending object; the primary key rejects an id already stored.
Insert(store, obj, uid) ==
    LET id == IF obj.hasId THEN obj.id ELSE NextRowId(store)
    IN  IF id \in Ids(store)
        THEN [ok |-> FALSE, id |-> id, store |-> store]
        ELSE [ok |-> TRUE, id |-> id,
              store |-> store \cup {[uid |-> uid, id |-> id, title |-> obj.title,
                                     completed |-> obj.completed]}]

\* query(Task).get(id), and refresh(obj): SELECT by primary key.
Get(store, id) ==
    IF id \in Ids(store) THEN ToSchema(CHOOSE r \in store : r.id = id) ELSE NoTask

\* The columns the session sees changed on the loaded object.
Dirty(old, new) ==
    {c \in {"title", "completed"} :
        (c = "title" /\ new.title # old.title)
        \/ (c = "completed" /\ new.completed # old.completed)}

\* UPDATE tasks SET <dirty columns> WHERE id = pk.
Update(store, pk, new, dirty) ==
    {IF r.id = pk
     THEN [r EXCEPT !.title = IF "title" \in dirty THEN new.title ELSE @,
                    !.completed = IF "completed" \in dirty THEN new.completed ELSE @]
     ELSE r : r \in store}

\* DELETE FROM tasks WHERE id = pk.
Delete(store, pk) == {r \in store : r.id # pk}

\* query(Task).all() may return the rows in any order.
RECURSIVE Orders(_)
Orders(store) ==
    IF store = {} THEN {<<>>}
    ELSE UNION {{<<ToSchema(r)>> \o rest : rest \in Orders(store \ {r})} : r \in store}

(***************************************************************************)
(* Handlers: what one request does to the table, what it answers and the   *)
(* session events it runs through.  fault names the storage call that      *)
(* raises ("none": no call does).                                          *)
(***************************************************************************)

Outcome(store, status, task, rows, detail, events) ==
    [store |-> store, status |-> status, task |-> task, rows |-> rows,
     detail |-> detail, trace |-> events]

\* get_db: the session is opened, the handler runs (and its result is
\* serialized), and the finally clause closes the session.
get_db(events) == <<"open">> \o events \o <<"close">>

ServerError(store, events) ==
    Outcome(store, 500, NoTask, <<>>, "Internal Server Error", events)

NotFound(store, events) ==
    Outcome(store, 404, NoTask, <<>>, "Task not found", events)

\* GET /tasks
get_tasks_run(store, order, fault) ==
    IF fault = "query"
    THEN ServerError(store, get_db(<<"query">>))
    ELSE Outcome(store, 200, NoTask, order, "", get_db(<<"query", "read">>))

\* Mutant of create_task_run: the id of the request body is inserted as the
\* row's primary key.
create_task_run_bodyid(store, task, uid, fault) ==
    LET db_task == [hasId |-> TRUE, id |-> task.id, title |-> task.title,
                    completed |-> task.completed]
        ins == Insert(store, db_task, uid)
    IN  IF ~ins.ok
        THEN ServerError(store, get_db(<<"add", "commit">>))
        ELSE Outcome(ins.store, 200, Get(ins.store, ins.id), <<>>, "",
                     get_db(<<"add", "commit", "refresh", "read">>))

\* Mutant of create_task_run: the row is flushed but never committed, so the
\* close of the session rolls it back.
create_task_run_nocommit(store, task, uid, fault) ==
    LET ins == Insert(store, Task(task), uid)
    IN  Outcome(store, 200, Get(ins.store, ins.id), <<>>, "",
                get_db(<<"add", "refresh", "read">>))

\* POST /tasks
create_task_run(store, task, uid, fault) ==
    LET db_task == Task(task)
        ins == Insert(store, db_task, uid)
    IN  IF fault = "add"
        THEN ServerError(store, get_db(<<"add">>))
        ELSE IF fault = "commit" \/ ~ins.ok
        THEN ServerError(store, get_db(<<"add", "commit">>))
        ELSE IF fault = "refresh"
        THEN ServerError(ins.store, get_db(<<"add", "commit", "refresh">>))
        ELSE Outcome(ins.store, 200, Get(ins.store, ins.id), <<>>, "",
                     get_db(<<"add", "commit", "refresh", "read">>))

\* Mutant of read_task_run: the missing-row check is left out.
read_task_run_nocheck(store, task_id, fault) ==
    Outcome(store, 200, Get(store, task_id), <<>>, "", get_db(<<"query", "read">>))

\* GET /tasks/{task_id}
read_task_run(store, task_id, fault) ==
    LET task == Get(store, task_id)
    IN  IF fault = "query"
        THEN ServerError(store, get_db(<<"query">>))
        ELSE IF task = NoTask
        THEN NotFound(store, get_db(<<"query">>))
        ELSE Outcome(store, 200, task, <<>>, "", get_db(<<"query", "read">>))

\* Mutant of update_task_run: the new fields are flushed but never committed.
update_task_run_nocommit(store, task_id, updated, fault) ==
    LET task == Get(store, task_id)
        after == Update(store, task_id, updated, Dirty(task, updated))
    IN  IF task = NoTask
        THEN NotFound(store, get_db(<<"query">>))
        ELSE Outcome(store, 200, Get(after, task_id), <<>>, "",
                     get_db(<<"query", "refresh", "read">>))

\* Mutant of update_task_run: the id of the request body is written to the
\* row as well (when no other row has it).
update_task_run_setsid(store, task_id, updated, fault) ==
    LET task == Get(store, task_id)
        after == {IF r.id = task_id
                  THEN [r EXCEPT !.id = updated.id, !.title = updated.title,
                                 !.completed = updated.completed]
                  ELSE r : r \in store}
    IN  IF task = NoTask
        THEN NotFound(store, get_db(<<"query">>))
        ELSE IF updated.id \in Ids(store) \ {task_id}
        THEN ServerError(store, get_db(<<"query", "commit">>))
        ELSE Outcome(after, 200, Get(after, updated.id), <<>>, "",
                     get_db(<<"query", "commit", "refresh", "read">>))

\* PUT /tasks/{task_id}
update_task_run(store, task_id, updated, fault) ==
    LET task == Get(store, task_id)
        after == Update(store, task_id, updated, Dirty(task, updated))
    IN  IF fault = "query"
        THEN ServerError(store, get_db(<<"query">>))
        ELSE IF task = NoTask
        THEN NotFound(store, get_db(<<"query">>))
        ELSE IF fault = "commit"
        THEN ServerError(store, get_db(<<"query", "commit">>))
        ELSE IF fault = "refresh"
        THEN ServerError(after, get_db(<<"query", "commit", "refresh">>))
        ELSE Outcome(after, 200, Get(after, task_id), <<>>, "",
                     get_db(<<"query", "commit", "refresh", "read">>))

\* Mutant of delete_task_run: the missing-row check is left out.
delete_task_run_nocheck(store, task_id, fault) ==
    Outcome(Delete(store, task_id), 200, NoTask, <<>>, "Task deleted",
            get_db(<<"query", "delete", "commit">>))

\* Mutant of delete_task_run: the delete is never committed.
delete_task_run_nocommit(store, task_id, fault) ==
    IF Get(store, task_id) = NoTask
    THEN NotFound(store, get_db(<<"query">>))
    ELSE Outcome(store, 200, NoTask, <<>>, "Task deleted", get_db(<<"query", "delete">>))

\* DELETE /tasks/{task_id}
delete_task_run(store, task_id, fault) ==
    LET task == Get(store, task_id)
    IN  IF fault = "query"
        THEN ServerError(store, get_db(<<"query">>))
        ELSE IF task = NoTask
        THEN NotFound(store, get_db(<<"query">>))
        ELSE IF fault = "commit"
        THEN ServerError(store, get_db(<<"query", "delete", "commit">>))
        ELSE Outcome(Delete(store, task_id), 200, NoTask, <<>>, "Task deleted",
                     get_db(<<"query", "delete", "commit">>))

\* admin add <title>: no guarded block; the fields are printed after close.
\* status is the exit code of the process.
create_sample_task_run(store, title, uid, fault) ==
    LET new_task == Task([title |-> title, completed |-> FALSE])
        ins == Insert(store, new_task, uid)
    IN  IF fault = "add"
        THEN Outcome(store, 1, NoTask, <<>>, "Traceback", <<"open", "add">>)
        ELSE IF fault = "commit" \/ ~ins.ok
        THEN Outcome(store, 1, NoTask, <<>>, "Traceback", <<"open", "add", "commit">>)
        ELSE IF fault = "refresh"
        THEN Outcome(ins.store, 1, NoTask, <<>>, "Traceback",
                     <<"open", "add", "commit", "refresh">>)
        ELSE Outcome(ins.store, 0, Get(ins.store, ins.id), <<>>, "",
                     <<"open", "add", "commit", "refresh", "close", "read">>)

\* admin list: every row is printed inside the loop, then the session is closed.
list_tasks_run(store, order, fault) ==
    IF fault = "query"
    THEN Outcome(store, 1, NoTask, <<>>, "Traceback", <<"open", "query">>)
    ELSE Outcome(store, 0, NoTask, order, "",
                 <<"open", "query">> \o [i \in 1..Len(order) |-> "read"] \o <<"close">>)

(***************************************************************************)
(* Requests served one at a time                                           *)
(***************************************************************************)

NoRequest ==
    [op |-> "none", path |-> 0, req |-> NoTask, status |-> 0, task |-> NoTask,
     rows |-> <<>>, detail |-> ""]

Init ==
    /\ tasks = {}
    /\ nInserted = 0
    /\ resp = NoRequest
    /\ prev = NoRequest
    /\ trace = <<>>
    /\ returned = {}
    /\ live = {}
    /\ gone = {}
    /\ nCreated = 0
    /\ nDeleted = 0
    /\ store0 = {}
    /\ creq = <<NoRequest, NoRequest>>
    /\ pc = <<"idle", "idle">>
    /\ loaded = <<NoTask, NoTask>>
    /\ cresp = <<NoRequest, NoRequest>>

\* The answer of a request, and what it leaves in the table.
Respond(op, path, req, o) ==
    /\ tasks' = o.store
    /\ nInserted' = nInserted + Cardinality({r.uid : r \in o.store} \ {r.uid : r \in tasks})
    /\ resp' = [op |-> op, path |-> path, req |-> req, status |-> o.status,
                task |-> o.task, rows |-> o.rows, detail |-> o.detail]
    /\ prev' = IF op = "get" /\ resp.op \in {"create", "update"}
                    /\ resp.status = 200 /\ resp.task.id = path
                THEN resp ELSE NoRequest
    /\ trace' = o.trace
    /\ UNCHANGED concVars

RowIds(rows) == {rows[i].id : i \in 1..Len(rows)}

get_tasks(fault) ==
    \E order \in Orders(tasks) :
        LET o == get_tasks_run(tasks, order, fault)
        IN  /\ Respond("list", 0, NoTask, o)
            /\ returned' = returned \cup RowIds(o.rows)
            /\ UNCHANGED <<live, gone, nCreated, nDeleted>>

create_task(task, fault) ==
    /\ nInserted < MaxCreates
    /\ LET o == create_task_run(tasks, task, nInserted + 1, fault)
           ok == o.status = 200
           new == Ids(o.store) \ Ids(tasks)
       IN  /\ Respond("create", 0, task, o)
           /\ returned' = IF ok THEN returned \cup {o.task.id} ELSE returned
           /\ live' = live \cup new
           /\ gone' = gone \ new
           /\ nCreated' = nCreated + Cardinality(new)
           /\ UNCHANGED nDeleted

read_task(task_id, fault) ==
    /\ Respond("get", task_id, NoTask, read_task_run(tasks, task_id, fault))
    /\ UNCHANGED <<returned, live, gone, nCreated, nDeleted>>

update_task(task_id, updated, fault) ==
    /\ Respond("update", task_id, updated, update_task_run(tasks, task_id, updated, fault))
    /\ UNCHANGED <<returned, live, gone, nCreated, nDeleted>>

delete_task(task_id, fault) ==
    LET o == delete_task_run(tasks, task_id, fault)
        ok == o.status = 200
    IN  /\ Respond("delete", task_id, NoTask, o)
        /\ live' = IF ok THEN live \ {task_id} ELSE live
        /\ gone' = IF ok THEN gone \cup {task_id} ELSE gone
        /\ nDeleted' = IF ok THEN nDeleted + 1 ELSE nDeleted
        /\ UNCHANGED <<returned, nCreated>>

create_sample_task(title, fault) ==
    /\ nInserted < MaxCreates
    /\ LET o == create_sample_task_run(tasks, title, nInserted + 1, fault)
           ok == o.status = 0
           new == Ids(o.store) \ Ids(tasks)
       IN  /\ Respond("cli_add", 0, [id |-> 0, title |-> title, completed |-> FALSE], o)
           /\ returned' = IF ok THEN returned \cup {o.task.id} ELSE returned
           /\ live' = live \cup new
           /\ gone' = gone \ new
           /\ nCreated' = nCreated + Cardinality(new)
           /\ UNCHANGED nDeleted

list_tasks(fault) ==
    \E order \in Orders(tasks) :
        LET o == list_tasks_run(tasks, order, fault)
        IN  /\ Respond("cli_list", 0, NoTask, o)
            /\ returned' = returned \cup RowIds(o.rows)
            /\ UNCHANGED <<live, gone, nCreated, nDeleted>>

Next ==
    \/ get_tasks("none")
    \/ \E task \in TaskSchema : create_task(task, "none")
    \/ \E task_id \in PathIds : read_task(task_id, "none")
    \/ \E task_id \in PathIds, updated \in TaskSchema : update_task(task_id, updated, "none")
    \/ \E task_id \in PathIds : delete_task(task_id, "none")
    \/ \E title \in Titles : create_sample_task(title, "none")
    \/ list_tasks("none")

Spec == Init /\ [][Next]_vars

(***************************************************************************)
(* Requests served one at a time, storage calls may raise                  *)
(***************************************************************************)

\* The payloads tried under storage failures: what a failure does to the
\* session depends on neither the body id nor the completion flag.
FaultPayloads == {x \in TaskSchema : x.id = 0 /\ x.completed}

NextFault ==
    \/ \E fault \in {"none", "query"} : get_tasks(fault)
    \/ \E task \in FaultPayloads, fault \in {"none", "add", "commit", "refresh"} :
           create_task(task, fault)
    \/ \E task_id \in PathIds, fault \in {"none", "query"} : read_task(task_id, fault)
    \/ \E task_id \in PathIds, updated \in FaultPayloads,
          fault \in {"none", "query", "commit", "refresh"} :
           update_task(task_id, updated, fault)
    \/ \E task_id \in PathIds, fault \in {"none", "query", "commit"} :
           delete_task(task_id, fault)
    \/ \E title \in Titles, fault \in {"none", "add", "commit", "refresh"} :
           create_sample_task(title, fault)
    \/ \E fault \in {"none", "query"} : list_tasks(fault)

SpecFault == Init /\ [][NextFault]_vars

(***************************************************************************)
(* Two concurrent HTTP requests on task 1, one session each.  A worker     *)
(* steps through the storage statements of its handler: the SELECT of      *)
(* query.get, the flush of commit, the SELECT of refresh.                  *)
(***************************************************************************)

Workers == {1, 2}

ConcStores ==
    {{}} \cup {{[uid |-> 1, id |-> 1, title |-> t, completed |-> c]} :
                 t \in Titles, c \in BOOLEAN}

ConcRequests ==
    {[op |-> "update", path |-> 1, req |-> u] : u \in {x \in TaskSchema : x.id = 0}}
    \cup {[op |-> "delete", path |-> 1, req |-> NoTask]}

NoAnswer == [status |-> 0, task |-> NoTask, detail |-> ""]

InitConc ==
    /\ tasks \in ConcStores
    /\ store0 = tasks
    /\ nInserted = Cardinality(tasks)
    /\ resp = NoRequest
    /\ prev = NoRequest
    /\ trace = <<>>
    /\ returned = Ids(tasks)
    /\ live = Ids(tasks)
    /\ gone = {}
    /\ nCreated = Cardinality(tasks)
    /\ nDeleted = 0
    /\ creq \in [Workers -> ConcRequests]
    /\ pc = [w \in Workers |-> "lookup"]
    /\ loaded = [w \in Workers |-> NoTask]
    /\ cresp = [w \in Workers |-> NoAnswer]

Answer(w, status, task, detail) ==
    /\ cresp' = [cresp EXCEPT ![w] = [status |-> status, task |-> task, detail |-> detail]]
    /\ pc' = [pc EXCEPT ![w] = "done"]

\* task = db.query(models.Task).get(task_id); if not task: raise 404
Lookup(w) ==
    /\ pc[w] = "lookup"
    /\ LET task == Get(tasks, creq[w].path)
       IN  /\ loaded' = [loaded EXCEPT ![w] = task]
           /\ IF task = NoTask
              THEN Answer(w, 404, NoTask, "Task not found")
              ELSE /\ pc' = [pc EXCEPT ![w] = "commit"]
                   /\ UNCHANGED cresp
    /\ UNCHANGED <<seqVars, store0, creq>>

\* task.title = ...; task.completed = ...; db.commit(): the flush issues an
\* UPDATE of the changed columns, if any, and raises when it matches no row.
CommitUpdate(w) ==
    /\ pc[w] = "commit"
    /\ creq[w].op = "update"
    /\ LET dirty == Dirty(loaded[w], creq[w].req)
       IN  IF dirty = {}
           THEN /\ pc' = [pc EXCEPT ![w] = "refresh"]
                /\ UNCHANGED <<tasks, cresp>>
           ELSE IF creq[w].path \notin Ids(tasks)
           THEN /\ Answer(w, 500, NoTask, "Internal Server Error")
                /\ UNCHANGED tasks
           ELSE /\ tasks' = Update(tasks, creq[w].path, creq[w].req, dirty)
                /\ pc' = [pc EXCEPT ![w] = "refresh"]
                /\ UNCHANGED cresp
    /\ UNCHANGED <<nInserted, resp, prev, trace, returned, live, gone, nCreated, nDeleted,
                   store0, creq, loaded>>

\* db.refresh(task); return task: the SELECT raises when the row is gone.
RefreshUpdate(w) ==
    /\ pc[w] = "refresh"
    /\ LET task == Get(tasks, creq[w].path)
       IN  IF task = NoTask
           THEN Answer(w, 500, NoTask, "Internal Server Error")
           ELSE Answer(w, 200, task, "")
    /\ UNCHANGED <<seqVars, store0, creq, loaded>>

\* db.delete(task); db.commit(): a DELETE that matches no row only warns.
CommitDelete(w) ==
    /\ pc[w] = "commit"
    /\ creq[w].op = "delete"
    /\ tasks' = Delete(tasks, creq[w].path)
    /\ Answer(w, 200, NoTask, "Task deleted")
    /\ UNCHANGED <<nInserted, resp, prev, trace, returned, live, gone, nCreated, nDeleted,
                   store0, creq, loaded>>

NextConc ==
    \E w \in Workers :
        \/ Lookup(w)
        \/ CommitUpdate(w)
        \/ RefreshUpdate(w)
        \/ CommitDelete(w)

SpecConc == InitConc /\ [][NextConc]_vars

\* The two requests served one after the other, first then second.
Handle(store, r) ==
    IF r.op = "update"
    THEN update_task_run(store, r.path, r.req, "none")
    ELSE delete_task_run(store, r.path, "none")

AnswerOf(o) == [status |-> o.status, task |-> o.task, detail |-> o.detail]

Serial(first, second) ==
    LET a == Handle(store0, creq[first])
        b == Handle(a.store, creq[second])
    IN  [store |-> b.store,
         answers |-> [w \in Workers |-> IF w = first THEN AnswerOf(a) ELSE AnswerOf(b)]]

(***************************************************************************)
(* Properties                                                              *)
(***************************************************************************)

Fields(id, payload) ==
    [id |-> id, title |-> payload.title, completed |-> payload.completed]

C2_CreateThenGet ==
    (resp.op = "get" /\ prev.op = "create") =>
        /\ resp.status = 200
        /\ resp.task.id = prev.task.id
        /\ resp.task.title = prev.req.title
        /\ resp.task.completed = prev.req.completed

C2_Witness ==
    /\ resp.op = "get"
    /\ prev.op = "create"
    /\ resp.status = 200
    /\ prev.req.id # prev.task.id
    /\ prev.req.completed

\* C3: a get of an id that no create or list response (HTTP or CLI) has
\* shown answers 404 "Task not found"; so does every get on an empty table.
C3_UnknownIdNotFound ==
    (resp.op = "get" /\ (resp.path \notin returned \/ tasks = {})) =>
        /\ resp.status = 404
        /\ resp.detail = "Task not found"
        /\ resp.task = NoTask

\* A get of a never-returned id has been answered while tasks are stored.
C3_Witness ==
    /\ resp.op = "get"
    /\ resp.path \notin returned
    /\ tasks # {}
    /\ resp.status = 404

\* C4: an update of a stored id answers 200 and leaves the task with the
\* path id and the title and completed of the payload, whatever the body
\* id; a get that follows returns them; an update of an id that is not
\* stored answers 404.
C4_UpdateOverwrites ==
    /\ resp.op = "update" =>
          IF resp.path \in Ids(tasks)
          THEN /\ resp.status = 200
               /\ resp.task = Fields(resp.path, resp.req)
               /\ Get(tasks, resp.path) = resp.task
          ELSE /\ resp.status = 404
               /\ resp.detail = "Task not found"
    /\ (resp.op = "get" /\ prev.op = "update") =>
          /\ resp.status = 200
          /\ resp.task = Fields(resp.path, prev.req)

\* A get has followed an update whose body id differs from the path id.
C4_Witness ==
    /\ resp.op = "get"
    /\ prev.op = "update"
    /\ prev.req.id # prev.path
    /\ resp.status = 200
    /\ Cardinality(tasks) >= 2

\* C5: a delete of a stored id answers "Task deleted" and removes that row
\* and no other; while the id is gone (until a create inserts it again)
\* every get and every delete of it answers 404.
C5_DeleteThenNotFound ==
    [][/\ (resp'.op = "delete" /\ resp'.path \in Ids(tasks)) =>
              /\ resp'.status = 200
              /\ resp'.detail = "Task deleted"
              /\ tasks' = {r \in tasks : r.id # resp'.path}
       /\ (resp'.op \in {"get", "delete"} /\ resp'.path \in gone) =>
              /\ resp'.status = 404
              /\ resp'.detail = "Task not found"]_vars

\* A second delete of a deleted id has been answered.
C5_Witness ==
    /\ resp.op = "delete"
    /\ resp.path \in gone
    /\ resp.status = 404

UniqueIds == \A r1, r2 \in tasks : r1.id = r2.id => r1 = r2

StableIds == \A r1 \in tasks : \A r2 \in tasks' : r1.uid = r2.uid => r1.id = r2.id

\* C7: no two stored tasks have the same id, and no step changes the id of
\* a stored task.
C7_IdUniqueAndStable == [](UniqueIds) /\ [][StableIds]_vars

\* An update with a foreign body id has been served next to another task,
\* after a delete.
C7_Witness ==
    /\ resp.op = "update"
    /\ resp.status = 200
    /\ resp.req.id # resp.path
    /\ resp.req.id \in Ids(tasks)
    /\ nDeleted >= 1

CountOf(e, events) == Cardinality({i \in 1..Len(events) : events[i] = e})

\* C8: every session a request opens is closed when the request ends, also
\* when a storage call raises.
C8_SessionsClosed == CountOf("open", trace) = CountOf("close", trace)

\* C9: when both concurrent requests have answered, their answers and the
\* table are those of serving them one after the other, in one of the two
\* orders.
C9_Serializable ==
    (\A w \in Workers : pc[w] = "done") =>
        [store |-> tasks, answers |-> cresp] \in {Serial(1, 2), Serial(2, 1)}

\* C10: no field of a task is read after the session that loaded it has
\* been closed.
C10_NoReadAfterClose ==
    \A i, j \in 1..Len(trace) : (i < j /\ trace[i] = "close") => trace[j] # "read"

====
